---- MODULE Spec2Model ----
(***************************************************************************)
(* Complaint tracker: the persisted schema with its row-level security     *)
(* policies and triggers (SQL migrations), and the client handlers that    *)
(* read and write it (React pages).  Every request carries the principal   *)
(* of the session that issues it (auth.uid()); the storage boundary is     *)
(* reachable by every authenticated client, so next to the page handlers   *)
(* the model has the plain table requests the policies admit.              *)
(***************************************************************************)
EXTENDS Integers, Sequences, FiniteSets, TLC

\* ------------------------------------------------------------------ bounds
MaxComplaints == 1
MaxHistory == 3
MaxAttachments == 1
\* complaints side by side, where a step on one must leave the other alone
MaxSideBySide == 2
\* navigations in a row that the router is followed for
MaxNavigations == 2

\* ------------------------------------------------------------- value sets
Students == {"s1", "s2"}
Admins == {"a1"}
Users == Students \cup Admins
Sessions == {"x1", "x2"}

\* Who is signed in where: two sessions of one account, a student and an
\* admin, two students.
SessionConfigs ==
    {[x1 |-> "a1", x2 |-> "a1"], [x1 |-> "s1", x2 |-> "a1"],
     [x1 |-> "s1", x2 |-> "s1"], [x1 |-> "s1", x2 |-> "s2"]}

app_role == {"student", "admin"}
complaint_status == {"open", "in_progress", "resolved"}

NULL == "NULL"
NoId == 0
NullText == <<NULL>>

\* Text is a sequence of characters; " " is the only whitespace modelled.
NoteInputs == {<< >>, <<" ">>, <<"r">>, <<" ", "r", " ">>}
StoredNotes == {NullText, <<"r">>}
Times == {1}

complaint_category ==
    {"mentor", "admin", "academic_counsellor", "working_hub", "peer", "other"}

\* Limits of the form, the bucket and the tables.
MaxTitle == 120
MaxDescription == 5000
maxSize == 10 * 1024 * 1024
file_size_limit == 10485760
max_byte_size == 10485760

validTypes == {"application/pdf", "image/jpeg", "image/png", "image/jpg"}
allowed_mime_types == {"application/pdf", "image/jpeg", "image/png", "image/jpg"}

Rep(c, n) ==
    [i \in 1..n |-> c]

\* A File of the browser: its type and size; the form holds none or one.
NoFile == << >>
aFile == [type |-> "application/pdf", size |-> 1]
aTitle == <<"t">>
aDescription == <<"d">>
\* The values of the state title, category, description and of a picked file
\* when handleSubmit or handleFileChange runs.  The fields carry required and
\* maxLength, which a browser enforces on typing; handleSubmit itself relies
\* on the schemas alone, so the empty and the over-long texts are among the
\* values it is run on.
TitleInputs ==
    {<< >>, <<" ">>, <<" ", "t", " ">>, Rep("t", MaxTitle + 1)}
DescriptionInputs ==
    {<<" ">>, <<" ", "d">>, Rep("d", MaxDescription + 1)}
CategoryInputs == {"", "other"}
FileInputs ==
    [type : {"application/pdf", "image/jpg", "text/plain"},
     size : {1, maxSize, maxSize + 1}]
\* The request of handleSubmit that does not go through, if any.
FailAt == {"none", "upload", "attachment", "complaint"}
\* to_status of the rows a client inserts into the ledger itself
ForgedStatuses == {"resolved"}
\* What the admin dashboard is tried on: titles in mixed case, the columns
\* full_name and email of the profiles, and the three filters.
ListTitles == {<<"a">>, <<"A", "b">>}
ListCategories == {"other", "mentor"}
profile_full_name ==
    [u \in Users |-> IF u = "s1" THEN <<"A", "n">> ELSE IF u = "s2" THEN <<"b">> ELSE <<"R">>]
profile_email ==
    [u \in Users |-> IF u = "s1" THEN <<"s", "1">> ELSE IF u = "s2" THEN <<"s", "2">> ELSE <<"r">>]
SearchTerms == {<< >>, <<"B">>, <<"D">>, <<"N">>, <<"1">>, <<"z">>}
StatusFilters == {"all", "resolved"}
CategoryFilters == {"all", "mentor"}
\* Addresses that have no account yet; an account's id stands for its email.
NewUsers == {"n1", "n2"}
\* raw_user_meta_data->>'role' of a sign-up: absent, or what the client sent
RoleMetadata == {NULL, "student", "admin"}

VARIABLES
    profiles,                  \* table profiles: user id -> role
    user_roles,                \* table user_roles: set of <<user_id, role>>
    complaints,                \* table complaints, in created_at order; id = position
    attachments,               \* table attachments, in created_at order; id = position
    complaint_status_history,  \* table complaint_status_history, in changed_at order
    objects,                   \* bucket complaint-attachments: set of object paths
    session,                   \* auth session of each browser session: its user id
    ui,                        \* the page each browser session is on, with the state its handlers read
    lastOp                     \* what the last step handed back: a toast, or the rows of a read

dbVars == <<profiles, user_roles, complaints, attachments, complaint_status_history, objects>>
vars == <<profiles, user_roles, complaints, attachments, complaint_status_history, objects, session, ui, lastOp>>

\* ------------------------------------------------------------ pure helpers
RECURSIVE trimStart(_)
trimStart(t) ==
    IF t # << >> /\ Head(t) = " " THEN trimStart(Tail(t)) ELSE t

RECURSIVE trimEnd(_)
trimEnd(t) ==
    IF t # << >> /\ t[Len(t)] = " " THEN trimEnd(SubSeq(t, 1, Len(t) - 1)) ELSE t

\* A trim that gives the text back as it is.
trim_none(t) ==
    t

trim(t) ==
    trimEnd(trimStart(t))

\* JS: x || y on strings and null
orElse(x, y) ==
    IF x = NullText \/ x = << >> THEN y ELSE x

Reverse(q) ==
    [i \in 1..Len(q) |-> q[Len(q) + 1 - i]]

\* ----------------------------------------------------- roles and policies
has_role(_user_id, _role) ==
    <<_user_id, _role>> \in user_roles

is_admin(user_id) ==
    has_role(user_id, "admin")

\* A SELECT policy that asks only for a signed-in user.
complaints_select_any(uid, c) ==
    uid \in Users

complaints_select_policy(uid, c) ==
    uid = c.student_id \/ has_role(uid, "admin")

\* An INSERT policy that asks only for a signed-in user.
complaints_insert_any(uid, c) ==
    uid \in Users

complaints_insert_policy(uid, c) ==
    uid = c.student_id

\* An UPDATE policy written for the wrong role.
complaints_update_student(uid, c) ==
    has_role(uid, "student")

\* An UPDATE policy that also lets the owner through.
complaints_update_owner(uid, c) ==
    uid = c.student_id \/ has_role(uid, "admin")

complaints_update_policy(uid, c) ==
    has_role(uid, "admin")

attachments_select_policy(uid, a) ==
    uid = a.owner_user_id \/ is_admin(uid)

attachments_insert_policy(uid, a) ==
    uid = a.owner_user_id

\* A SELECT policy on the author of the entry in place of the owner of the
\* complaint.
history_select_author(uid, h) ==
    h.changed_by_user_id = uid \/ is_admin(uid)

history_select_policy(uid, h) ==
    \/ \E i \in DOMAIN complaints :
          complaints[i].id = h.complaint_id /\ complaints[i].student_id = uid
    \/ is_admin(uid)

history_insert_policy(uid, h) ==
    TRUE

\* Row-level security is enabled on complaint_status_history and on
\* complaints, and no policy is written FOR UPDATE or FOR DELETE of the
\* ledger, nor FOR DELETE of complaints: no row passes.
history_update_policy(uid, h) ==
    FALSE

history_delete_policy(uid, h) ==
    FALSE

\* "Users can view their own profile" and "Admins can view all profiles"
profiles_select_policy(uid, id) ==
    uid = id \/ has_role(uid, "admin")

\* "Users can update their own profile": USING picks the rows, WITH CHECK
\* judges the new row; its sub-select reads the table as it was before the
\* statement.
profiles_update_using(uid, id) ==
    uid = id

\* A WITH CHECK that looks at the owner alone.
profiles_update_check_owner(uid, new) ==
    uid = new.id

profiles_update_check(uid, new) ==
    uid = new.id /\ new.role = profiles[uid]

\* Row-level security is enabled on user_roles and only SELECT policies are
\* written: no INSERT, UPDATE or DELETE of a client passes.
user_roles_insert_policy(uid, row) ==
    FALSE

user_roles_delete_policy(uid, row) ==
    FALSE

storage_select_policy(uid, path) ==
    path[1] = uid \/ is_admin(uid)

storage_insert_policy(uid, path) ==
    uid = path[1]

\* ------------------------------------------------------------------ trigger
\* A trigger that writes an entry at every UPDATE, the status changed or not.
log_every_update(tg_op, old, new, uid) ==
    Append(complaint_status_history,
           [complaint_id |-> new.id,
            changed_by_user_id |-> uid,
            from_status |-> IF tg_op = "INSERT" THEN NULL ELSE old.status,
            to_status |-> new.status,
            note_snapshot |-> new.admin_note,
            by_trigger |-> TRUE])

\* A trigger that is fired AFTER UPDATE only.
log_updates_only(tg_op, old, new, uid) ==
    IF tg_op = "UPDATE" /\ old.status # new.status
    THEN Append(complaint_status_history,
                [complaint_id |-> new.id,
                 changed_by_user_id |-> uid,
                 from_status |-> old.status,
                 to_status |-> new.status,
                 note_snapshot |-> new.admin_note,
                 by_trigger |-> TRUE])
    ELSE complaint_status_history

\* AFTER INSERT OR UPDATE ON complaints: the ledger after the row changed.
\* by_trigger is not a column: it marks the rows this function wrote.
log_complaint_status_change(tg_op, old, new, uid) ==
    IF tg_op = "INSERT" \/ old.status # new.status
    THEN Append(complaint_status_history,
                [complaint_id |-> new.id,
                 changed_by_user_id |-> uid,
                 from_status |-> IF tg_op = "INSERT" THEN NULL ELSE old.status,
                 to_status |-> new.status,
                 note_snapshot |-> new.admin_note,
                 by_trigger |-> TRUE])
    ELSE complaint_status_history

\* ------------------------------------------------------------ table reads
ledger(id) ==
    SelectSeq(complaint_status_history, LAMBDA h : h.complaint_id = id)

select_complaints(uid) ==
    Reverse(SelectSeq(complaints, LAMBDA c : complaints_select_policy(uid, c)))

select_complaint_by_id(uid, id) ==
    SelectSeq(complaints, LAMBDA c : c.id = id /\ complaints_select_policy(uid, c))

\* A history read that leaves the policy out.
select_history_unfiltered(uid, id) ==
    SelectSeq(complaint_status_history, LAMBDA h : h.complaint_id = id)

select_history(uid, id) ==
    SelectSeq(complaint_status_history,
              LAMBDA h : h.complaint_id = id /\ history_select_policy(uid, h))

select_attachment_by_id(uid, id) ==
    SelectSeq(attachments, LAMBDA a : a.id = id /\ attachments_select_policy(uid, a))

storage_download(uid, path) ==
    IF path \in objects /\ storage_select_policy(uid, path) THEN <<path>> ELSE << >>

\* ----------------------------------------------------------- table writes
\* UPDATE complaints SET status, admin_note WHERE id = id, as uid: the rows
\* the policy lets the statement see.
rows_to_update(uid, id) ==
    {i \in DOMAIN complaints :
        complaints[i].id = id /\ complaints_update_policy(uid, complaints[i])}

\* An UPDATE that keeps the stored note when the new one is NULL.
updated_row_merge(c, st, note) ==
    [c EXCEPT !.status = st,
              !.admin_note = IF note = NullText THEN c.admin_note ELSE note]

updated_row(c, st, note) ==
    [c EXCEPT !.status = st, !.admin_note = note]

\* An UPDATE without its WHERE id = id: every row the policy shows.
update_every_row(uid, id, st, note) ==
    IF rows_to_update(uid, id) = {}
    THEN UNCHANGED <<complaints, complaint_status_history>>
    ELSE /\ complaints' = [i \in DOMAIN complaints |-> updated_row(complaints[i], st, note)]
         /\ complaint_status_history' =
               log_complaint_status_change("UPDATE", complaints[id],
                                           updated_row(complaints[id], st, note), uid)

\* The statement with its trigger, in one transaction.
update_complaint(uid, id, st, note) ==
    IF rows_to_update(uid, id) = {}
    THEN UNCHANGED <<complaints, complaint_status_history>>
    ELSE /\ complaints' = [complaints EXCEPT ![id] = updated_row(complaints[id], st, note)]
         /\ complaint_status_history' =
               log_complaint_status_change("UPDATE", complaints[id],
                                           updated_row(complaints[id], st, note), uid)

NoOp ==
    [op |-> "none", session |-> "none", result |-> "none"]

NoPage ==
    [page |-> "none"]

\* -------------------------------------------- form and table constraints
\* A title test that measures the text as typed.
titleSchema_untrimmed(text) ==
    Len(text) >= 1 /\ Len(text) <= MaxTitle

\* z.string().trim().min(1).max(120): the text is trimmed, then measured.
titleSchema(text) ==
    Len(trim(text)) >= 1 /\ Len(trim(text)) <= MaxTitle

descriptionSchema(text) ==
    Len(trim(text)) >= 1 /\ Len(trim(text)) <= MaxDescription

\* What the bucket takes: file_size_limit and allowed_mime_types.
bucket_accepts(f) ==
    f.size <= file_size_limit /\ f.type \in allowed_mime_types

\* CHECK constraints of attachments and complaints on the columns modelled.
attachments_check(a) ==
    a.byte_size > 0 /\ a.byte_size <= max_byte_size

complaints_check(c) ==
    /\ Len(c.title) > 0 /\ Len(c.title) <= MaxTitle
    /\ Len(c.description) > 0 /\ Len(c.description) <= MaxDescription
    /\ c.category \in complaint_category

\* A try block without the throw after the attachment insert.
aborted_unless_attachment(uploadError, attachmentError, complaintError) ==
    uploadError \/ complaintError

\* handleSubmit leaves its try block at the first request that failed.
aborted(uploadError, attachmentError, complaintError) ==
    uploadError \/ attachmentError \/ complaintError

\* ---------------------------------------------------------------- initial
Init ==
    /\ profiles = [u \in Users |-> IF u \in Admins THEN "admin" ELSE "student"]
    /\ user_roles = {<<u, IF u \in Admins THEN "admin" ELSE "student">> : u \in Users}
    /\ complaints = << >>
    /\ attachments = << >>
    /\ complaint_status_history = << >>
    /\ objects = {}
    /\ session \in SessionConfigs
    /\ ui = [s \in Sessions |-> NoPage]
    /\ lastOp = NoOp

\* ------------------------------------------- NewComplaint.handleFileChange
\* The page is mounted with an empty form.
NewComplaint(s) ==
    /\ ui' = [ui EXCEPT ![s] = [page |-> "new_complaint", file |-> NoFile]]
    /\ lastOp' = NoOp
    /\ UNCHANGED <<dbVars, session>>

invalidType(selectedFile) ==
    selectedFile.type \notin validTypes

\* A size test that turns away a file of exactly maxSize.
tooLarge_inclusive(selectedFile) ==
    selectedFile.size >= maxSize

tooLarge(selectedFile) ==
    selectedFile.size > maxSize

\* A file is picked: it becomes the form's file unless a test turns it
\* away, and then the form keeps the file it had.
handleFileChange(s, selectedFile) ==
    LET told(toast) == [op |-> "handleFileChange", session |-> s, result |-> toast]
    IN  /\ ui[s].page = "new_complaint"
        /\ IF invalidType(selectedFile)
           THEN /\ lastOp' = told("Invalid file type")
                /\ UNCHANGED ui
           ELSE IF tooLarge(selectedFile)
           THEN /\ lastOp' = told("File too large")
                /\ UNCHANGED ui
           ELSE /\ lastOp' = told("set")
                /\ ui' = [ui EXCEPT ![s].file = <<selectedFile>>]
        /\ UNCHANGED <<dbVars, session>>

\* ------------------------------------------------ NewComplaint.handleSubmit
\* The form fields when Submit is pressed: title, category ("" = none
\* selected), description and file (NoFile or <<f>>, f set by
\* handleFileChange); t is Date.now(); failAt names the request that fails
\* in transit.
handleSubmit(s, title, category, description, file, t, failAt) ==
    LET uid == session[s]
        told(toast) == [op |-> "handleSubmit", session |-> s, result |-> toast]
        hasFile == file # NoFile
        fileName == <<uid, t>>
        uploadError == \/ failAt = "upload"
                       \/ ~storage_insert_policy(uid, fileName)
                       \/ fileName \in objects
                       \/ ~bucket_accepts(file[1])
        attachmentData == [id |-> Len(attachments) + 1,
                           owner_user_id |-> uid,
                           stored_path |-> fileName,
                           mime_type |-> file[1].type,
                           byte_size |-> file[1].size]
        attachmentError == \/ failAt = "attachment"
                           \/ ~attachments_insert_policy(uid, attachmentData)
                           \/ ~attachments_check(attachmentData)
        row == [id |-> Len(complaints) + 1,
                student_id |-> uid,
                title |-> trim(title),
                category |-> category,
                description |-> trim(description),
                attachment_id |-> IF hasFile THEN Len(attachments) + 1 ELSE NoId,
                status |-> "open",
                admin_note |-> NullText]
        complaintError == \/ failAt = "complaint"
                          \/ ~complaints_insert_policy(uid, row)
                          \/ ~complaints_check(row)
    IN  /\ Len(complaint_status_history) < MaxHistory
        /\ hasFile => Len(attachments) < MaxAttachments
        /\ IF ~titleSchema(title) \/ ~descriptionSchema(description) \/ category = ""
           THEN /\ lastOp' = told(IF category = "" THEN "Category required" ELSE "errors")
                /\ UNCHANGED <<objects, attachments, complaints, complaint_status_history, ui>>
           ELSE /\ objects' = IF hasFile /\ ~uploadError THEN objects \cup {fileName} ELSE objects
                /\ attachments' = IF hasFile /\ ~uploadError /\ ~attachmentError
                                  THEN Append(attachments, attachmentData)
                                  ELSE attachments
                /\ IF aborted(hasFile /\ uploadError,
                              hasFile /\ ~uploadError /\ attachmentError,
                              complaintError)
                   THEN /\ UNCHANGED <<complaints, complaint_status_history, ui>>
                        /\ lastOp' = told("Submission failed")
                   ELSE /\ complaints' = Append(complaints, row)
                        /\ complaint_status_history' =
                              log_complaint_status_change("INSERT", row, row, uid)
                        /\ lastOp' = told("Complaint submitted!")
                        \* navigate("/student")
                        /\ ui' = [ui EXCEPT ![s] = NoPage]
        /\ UNCHANGED <<profiles, user_roles, session>>

\* ------------------------------------------- dashboards: fetchComplaints
\* StudentDashboard and AdminDashboard send the same query: every row the
\* policies show the caller, newest first.  The list is only displayed.
fetchComplaints(s) ==
    /\ ui' = [ui EXCEPT ![s] = [page |-> "dashboard"]]
    /\ lastOp' = [op |-> "fetchComplaints", session |-> s,
                  result |-> select_complaints(session[s])]
    /\ UNCHANGED <<dbVars, session>>

\* ------------------------- detail pages: fetchComplaint and fetchHistory
\* The page (StudentComplaintDetail or AdminComplaintDetail) is mounted for
\* id: its state starts empty and fetchComplaint runs.  .single() gives an
\* error unless exactly one row comes back, and complaint stays null.
fetchComplaint(s, page, id) ==
    /\ ui' = [ui EXCEPT ![s] = [page |-> page,
                                id |-> id,
                                complaint |-> select_complaint_by_id(session[s], id)]]
    /\ lastOp' = NoOp
    /\ UNCHANGED <<dbVars, session>>

\* The second request of the mount effect; the list is only displayed.  The
\* request fails only when it does not go through (ok = FALSE): rows that
\* the policy hides are left out of data without an error.
fetchHistory(s, ok) ==
    /\ ui[s].page \in {"student_detail", "admin_detail"}
    /\ lastOp' = [op |-> "fetchHistory", session |-> s,
                  error |-> ~ok,
                  result |-> IF ok THEN select_history(session[s], ui[s].id) ELSE << >>]
    /\ UNCHANGED <<dbVars, session, ui>>

\* --------------------------------------------------- downloadAttachment
\* The two requests of a download: the attachment row by id, then the object
\* at its stored_path.  An empty sequence is "nothing came back".
download(uid, attachment_id) ==
    LET attachmentData == select_attachment_by_id(uid, attachment_id)
    IN  IF attachmentData = << >> THEN << >>
        ELSE storage_download(uid, attachmentData[1].stored_path)

downloadAttachment(s) ==
    /\ ui[s].page \in {"student_detail", "admin_detail"}
    /\ ui[s].complaint # << >>
    /\ ui[s].complaint[1].attachment_id # NoId
    /\ lastOp' = [op |-> "downloadAttachment", session |-> s,
                  result |-> download(session[s], ui[s].complaint[1].attachment_id)]
    /\ UNCHANGED <<dbVars, session, ui>>

\* ------------------------------------ AdminComplaintDetail.handleSave
hasChanges(c, status, adminNote) ==
    status # c.status \/ adminNote # orElse(c.admin_note, << >>)

isResolved(c) ==
    c.status = "resolved"

\* What the refresh after a successful save leaves on the page.
refreshed(s, found) ==
    [page |-> "admin_detail",
     id |-> ui[s].id,
     complaint |-> IF found # << >> THEN found ELSE ui[s].complaint]

\* status, adminNote: the form fields when Save is pressed; ok = FALSE: the
\* request itself fails (supabase returns an error).
handleSave(s, status, adminNote, ok) ==
    LET uid == session[s]
        id == ui[s].id
        complaint == ui[s].complaint[1]
        told(toast) == [op |-> "handleSave", session |-> s, result |-> toast]
    IN  /\ ui[s].page = "admin_detail"
        /\ ui[s].complaint # << >>
        \* the Save button: disabled={!hasChanges || isResolved || saving}
        /\ hasChanges(complaint, status, adminNote)
        /\ ~isResolved(complaint)
        /\ IF status = "resolved" /\ trim(adminNote) = << >>
           THEN /\ lastOp' = told("Note required")
                /\ UNCHANGED <<complaints, complaint_status_history, ui>>
           ELSE IF complaint.status = "resolved"
           THEN /\ lastOp' = told("Cannot update")
                /\ UNCHANGED <<complaints, complaint_status_history, ui>>
           ELSE IF ~ok
           THEN /\ lastOp' = told("Update failed")
                /\ UNCHANGED <<complaints, complaint_status_history, ui>>
           ELSE /\ update_complaint(uid, id, status, orElse(trim(adminNote), NullText))
                /\ Len(complaint_status_history') <= MaxHistory
                /\ lastOp' = told("Updated successfully")
                /\ ui' = [ui EXCEPT ![s] =
                            refreshed(s, SelectSeq(complaints',
                                LAMBDA c : c.id = id /\ complaints_select_policy(uid, c)))]
        /\ UNCHANGED <<profiles, user_roles, attachments, objects, session>>

\* ------------------------------------ plain requests to the tables
\* Any signed-in client can send these; the policies decide.
RequestUpdateComplaint(s, id, st, note) ==
    /\ id \in DOMAIN complaints
    /\ update_complaint(session[s], id, st, note)
    /\ Len(complaint_status_history') <= MaxHistory
    /\ lastOp' = NoOp
    /\ UNCHANGED <<profiles, user_roles, attachments, objects, session, ui>>

RequestInsertHistory(s, id, to) ==
    LET h == [complaint_id |-> id,
              changed_by_user_id |-> session[s],
              from_status |-> NULL,
              to_status |-> to,
              note_snapshot |-> NullText,
              by_trigger |-> FALSE]
    IN  /\ id \in DOMAIN complaints
        /\ Len(complaint_status_history) < MaxHistory
        /\ IF history_insert_policy(session[s], h)
           THEN /\ complaint_status_history' = Append(complaint_status_history, h)
                /\ lastOp' = NoOp
           ELSE /\ UNCHANGED complaint_status_history
                /\ lastOp' = [op |-> "insert_history", session |-> s, result |-> "error"]
        /\ UNCHANGED <<profiles, user_roles, complaints, attachments, objects, session, ui>>

\* INSERT INTO complaints with the student_id, status and admin_note the
\* client chose; status has the default open and admin_note the default
\* NULL when the request leaves them out.
RequestInsertComplaint(s, student_id, status, admin_note) ==
    LET uid == session[s]
        row == [id |-> Len(complaints) + 1,
                student_id |-> student_id,
                title |-> aTitle,
                category |-> "other",
                description |-> aDescription,
                attachment_id |-> NoId,
                status |-> status,
                admin_note |-> admin_note]
        told(answer) == [op |-> "insert_complaint", session |-> s,
                         student_id |-> student_id, result |-> answer]
    IN  /\ Len(complaint_status_history) < MaxHistory
        /\ IF complaints_insert_policy(uid, row) /\ complaints_check(row)
           THEN /\ complaints' = Append(complaints, row)
                /\ complaint_status_history' =
                      log_complaint_status_change("INSERT", row, row, uid)
                /\ lastOp' = told("created")
           ELSE /\ UNCHANGED <<complaints, complaint_status_history>>
                /\ lastOp' = told("error")
        /\ UNCHANGED <<profiles, user_roles, attachments, objects, session, ui>>

\* fk_complaints_attachment: attachment_id is null or the id of a row of
\* attachments.  A foreign key is checked against the table itself, not
\* against the rows the policies show the caller.
fk_complaints_attachment(attachment_id) ==
    attachment_id = NoId \/ attachment_id \in DOMAIN attachments

\* INSERT INTO complaints by the caller in their own name, with the
\* attachment_id the client chose.
RequestInsertComplaintWithAttachment(s, attachment_id) ==
    LET uid == session[s]
        row == [id |-> Len(complaints) + 1,
                student_id |-> uid,
                title |-> aTitle,
                category |-> "other",
                description |-> aDescription,
                attachment_id |-> attachment_id,
                status |-> "open",
                admin_note |-> NullText]
        told(answer) == [op |-> "insert_complaint", session |-> s,
                         student_id |-> uid, result |-> answer]
    IN  /\ Len(complaint_status_history) < MaxHistory
        /\ IF /\ complaints_insert_policy(uid, row)
              /\ complaints_check(row)
              /\ fk_complaints_attachment(attachment_id)
           THEN /\ complaints' = Append(complaints, row)
                /\ complaint_status_history' =
                      log_complaint_status_change("INSERT", row, row, uid)
                /\ lastOp' = told("created")
           ELSE /\ UNCHANGED <<complaints, complaint_status_history>>
                /\ lastOp' = told("error")
        /\ UNCHANGED <<profiles, user_roles, attachments, objects, session, ui>>

InsertAt(q, pos, x) ==
    SubSeq(q, 1, pos - 1) \o <<x>> \o SubSeq(q, pos, Len(q))

\* INSERT INTO complaint_status_history with a changed_at the client chose:
\* the row falls at pos in changed_at order, Len + 1 being now().
RequestInsertHistoryAt(s, id, to, pos) ==
    LET h == [complaint_id |-> id,
              changed_by_user_id |-> session[s],
              from_status |-> NULL,
              to_status |-> to,
              note_snapshot |-> NullText,
              by_trigger |-> FALSE]
    IN  /\ id \in DOMAIN complaints
        /\ Len(complaint_status_history) < MaxHistory
        /\ pos \in 1..(Len(complaint_status_history) + 1)
        /\ IF history_insert_policy(session[s], h)
           THEN /\ complaint_status_history' = InsertAt(complaint_status_history, pos, h)
                /\ lastOp' = NoOp
           ELSE /\ UNCHANGED complaint_status_history
                /\ lastOp' = [op |-> "insert_history", session |-> s, result |-> "error"]
        /\ UNCHANGED <<profiles, user_roles, complaints, attachments, objects, session, ui>>

\* UPDATE complaint_status_history SET to_status WHERE the row is the k-th:
\* rows the policy hides are not touched, and no error comes back.
RequestUpdateHistory(s, k, to) ==
    /\ k \in DOMAIN complaint_status_history
    /\ complaint_status_history' =
          IF history_update_policy(session[s], complaint_status_history[k])
          THEN [complaint_status_history EXCEPT ![k].to_status = to]
          ELSE complaint_status_history
    /\ lastOp' = [op |-> "update_history", session |-> s, result |-> k]
    /\ UNCHANGED <<profiles, user_roles, complaints, attachments, objects, session, ui>>

\* DELETE FROM complaint_status_history WHERE the row is the k-th.
RequestDeleteHistory(s, k) ==
    /\ k \in DOMAIN complaint_status_history
    /\ complaint_status_history' =
          IF history_delete_policy(session[s], complaint_status_history[k])
          THEN SubSeq(complaint_status_history, 1, k - 1)
                   \o SubSeq(complaint_status_history, k + 1, Len(complaint_status_history))
          ELSE complaint_status_history
    /\ lastOp' = [op |-> "delete_history", session |-> s, result |-> k]
    /\ UNCHANGED <<profiles, user_roles, complaints, attachments, objects, session, ui>>

RequestDownload(s, attachment_id, path) ==
    /\ lastOp' = [op |-> "download", session |-> s,
                  attachment_id |-> attachment_id, path |-> path,
                  result |-> <<select_attachment_by_id(session[s], attachment_id),
                               storage_download(session[s], path)>>]
    /\ UNCHANGED <<dbVars, session, ui>>

\* supabase.storage.from("complaint-attachments").upload(path, f) with a path
\* the client chose; upsert is off, so a name that exists is an error.
RequestUpload(s, path, f) ==
    LET uid == session[s]
        told(answer) == [op |-> "upload", session |-> s, path |-> path, result |-> answer]
    IN  /\ IF /\ storage_insert_policy(uid, path)
              /\ path \notin objects
              /\ bucket_accepts(f)
           THEN /\ objects' = objects \cup {path}
                /\ lastOp' = told("uploaded")
           ELSE /\ UNCHANGED objects
                /\ lastOp' = told("error")
        /\ UNCHANGED <<profiles, user_roles, complaints, attachments,
                       complaint_status_history, session, ui>>

\* INSERT INTO attachments with the columns the client chose.
RequestInsertAttachment(s, owner_user_id, stored_path, f) ==
    LET uid == session[s]
        a == [id |-> Len(attachments) + 1,
              owner_user_id |-> owner_user_id,
              stored_path |-> stored_path,
              mime_type |-> f.type,
              byte_size |-> f.size]
        told(answer) == [op |-> "insert_attachment", session |-> s, result |-> answer]
    IN  /\ IF attachments_insert_policy(uid, a) /\ attachments_check(a)
           THEN /\ attachments' = Append(attachments, a)
                /\ lastOp' = told("created")
           ELSE /\ UNCHANGED attachments
                /\ lastOp' = told("error")
        /\ UNCHANGED <<profiles, user_roles, complaints, complaint_status_history,
                       objects, session, ui>>

\* ---------------------- AdminDashboard: fetchComplaints, filterComplaints
\* String.prototype.toLowerCase left out.
toLowerCase_asis(text) ==
    text

\* String.prototype.toLowerCase, on the letters the texts are made of.
toLowerCase(text) ==
    [i \in 1..Len(text) |->
        IF text[i] = "A" THEN "a"
        ELSE IF text[i] = "B" THEN "b"
        ELSE IF text[i] = "D" THEN "d"
        ELSE IF text[i] = "N" THEN "n"
        ELSE IF text[i] = "R" THEN "r"
        ELSE text[i]]

\* String.prototype.includes
includes(text, term) ==
    \E i \in 0..(Len(text) - Len(term)) :
        \A k \in 1..Len(term) : text[i + k] = term[k]

\* student:student_id (id, full_name, email): the profile the policies show
\* the caller, or none.
embed_student(uid, c) ==
    IF profiles_select_policy(uid, c.student_id)
    THEN <<[id |-> c.student_id,
            full_name |-> profile_full_name[c.student_id],
            email |-> profile_email[c.student_id]]>>
    ELSE << >>

select_complaints_with_student(uid) ==
    LET rows == select_complaints(uid)
    IN  [i \in 1..Len(rows) |->
            [complaint |-> rows[i], student |-> embed_student(uid, rows[i])]]

\* The page is mounted by an admin (user && profile?.role === "admin"):
\* fetchComplaints stores what the query gave.
AdminDashboard(s) ==
    /\ profiles[session[s]] = "admin"
    /\ ui' = [ui EXCEPT ![s] =
                [page |-> "admin_dashboard",
                 complaints |-> select_complaints_with_student(session[s])]]
    /\ lastOp' = [op |-> "AdminDashboard", session |-> s, result |-> "fetched"]
    /\ UNCHANGED <<dbVars, session>>

matchesSearch(row, searchTerm) ==
    LET term == toLowerCase(searchTerm)
        c == row.complaint
    IN  \/ includes(toLowerCase(c.title), term)
        \/ includes(toLowerCase(c.description), term)
        \/ (row.student # << >> /\ includes(toLowerCase(row.student[1].email), term))
        \/ (row.student # << >> /\ includes(toLowerCase(row.student[1].full_name), term))

\* The effect on [complaints, searchTerm, statusFilter, categoryFilter]:
\* filteredComplaints is what the table of the page shows.
filterComplaints(s, searchTerm, statusFilter, categoryFilter) ==
    LET afterSearch == IF searchTerm # << >>
                       THEN SelectSeq(ui[s].complaints,
                                      LAMBDA row : matchesSearch(row, searchTerm))
                       ELSE ui[s].complaints
        afterStatus == IF statusFilter # "all"
                       THEN SelectSeq(afterSearch,
                                      LAMBDA row : row.complaint.status = statusFilter)
                       ELSE afterSearch
        filtered == IF categoryFilter # "all"
                    THEN SelectSeq(afterStatus,
                                   LAMBDA row : row.complaint.category = categoryFilter)
                    ELSE afterStatus
    IN  /\ ui[s].page = "admin_dashboard"
        /\ lastOp' = [op |-> "filterComplaints", session |-> s,
                      searchTerm |-> searchTerm, statusFilter |-> statusFilter,
                      categoryFilter |-> categoryFilter, result |-> filtered]
        /\ UNCHANGED <<dbVars, session, ui>>

\* ------------------------------------------------ accounts and roles
COALESCE(x, y) ==
    IF x = NULL THEN y ELSE x

\* handle_new_user as it was before user_roles was added: the profile only.
handle_new_user_profile_only(id, role) ==
    /\ profiles' = [u \in DOMAIN profiles \cup {id} |->
                       IF u = id THEN COALESCE(role, "student") ELSE profiles[u]]
    /\ UNCHANGED user_roles

\* AFTER INSERT ON auth.users: the profile and the user_roles row of the new
\* account, both with the role of its metadata.
handle_new_user(id, role) ==
    /\ profiles' = [u \in DOMAIN profiles \cup {id} |->
                       IF u = id THEN COALESCE(role, "student") ELSE profiles[u]]
    /\ user_roles' = user_roles \cup {<<id, COALESCE(role, "student")>>}

\* supabase.auth.signUp({email, options: {data: {role}}}): an address that
\* has an account is an error, any other gets its auth.users row.
signUp(email, role) ==
    IF email \in DOMAIN profiles
    THEN UNCHANGED <<profiles, user_roles>>
    ELSE handle_new_user(email, role)

\* The Sign Up tab of Auth: the metadata carries role: "student", and the
\* page goes to /student once the account is made.
handleSignUp(s, email) ==
    LET told(toast) == [op |-> "handleSignUp", session |-> s, user |-> email,
                        result |-> toast]
    IN  /\ signUp(email, "student")
        /\ IF email \in DOMAIN profiles
           THEN /\ lastOp' = told("Sign up failed")
                /\ UNCHANGED ui
           ELSE /\ lastOp' = told("Account created!")
                /\ ui' = [ui EXCEPT ![s] = [page |-> "dashboard"]]
        /\ UNCHANGED <<complaints, attachments, complaint_status_history, objects,
                       session>>

\* The same request sent without the page: the metadata is the client's.
RequestSignUp(s, email, role) ==
    /\ signUp(email, role)
    /\ lastOp' = [op |-> "signUp", session |-> s, user |-> email,
                  result |-> IF email \in DOMAIN profiles THEN "error" ELSE "created"]
    /\ UNCHANGED <<complaints, attachments, complaint_status_history, objects,
                   session, ui>>

\* The Sign In tab of Auth: the session becomes that of the account.
handleSignIn(s, email) ==
    /\ email \in DOMAIN profiles
    /\ session' = [session EXCEPT ![s] = email]
    /\ ui' = [ui EXCEPT ![s] = NoPage]
    /\ lastOp' = [op |-> "handleSignIn", session |-> s, user |-> email,
                  result |-> "Success!"]
    /\ UNCHANGED dbVars

\* UPDATE profiles SET role = role (and any other column) WHERE id = id.
RequestUpdateProfile(s, id, role) ==
    LET uid == session[s]
        told(answer) == [op |-> "update_profile", session |-> s, user |-> id,
                         role |-> role, result |-> answer]
    IN  /\ IF ~(id \in DOMAIN profiles /\ profiles_update_using(uid, id))
           THEN /\ UNCHANGED profiles
                /\ lastOp' = told("no rows")
           ELSE IF ~profiles_update_check(uid, [id |-> id, role |-> role])
           THEN /\ UNCHANGED profiles
                /\ lastOp' = told("error")
           ELSE /\ profiles' = [profiles EXCEPT ![id] = role]
                /\ lastOp' = told("updated")
        /\ UNCHANGED <<user_roles, complaints, attachments, complaint_status_history,
                       objects, session, ui>>

\* INSERT INTO user_roles (user_id, role).
RequestInsertUserRole(s, user_id, role) ==
    LET told(answer) == [op |-> "insert_user_role", session |-> s, user |-> user_id,
                         role |-> role, result |-> answer]
    IN  /\ IF user_roles_insert_policy(session[s], <<user_id, role>>)
           THEN /\ user_roles' = user_roles \cup {<<user_id, role>>}
                /\ lastOp' = told("created")
           ELSE /\ UNCHANGED user_roles
                /\ lastOp' = told("error")
        /\ UNCHANGED <<profiles, complaints, attachments, complaint_status_history,
                       objects, session, ui>>

\* DELETE FROM user_roles WHERE user_id = user_id AND role = role: rows the
\* policies hide are not touched, and no error comes back.
RequestDeleteUserRole(s, user_id, role) ==
    /\ user_roles' =
          IF user_roles_delete_policy(session[s], <<user_id, role>>)
          THEN user_roles \ {<<user_id, role>>}
          ELSE user_roles
    /\ lastOp' = [op |-> "delete_user_role", session |-> s, user |-> user_id,
                  role |-> role, result |-> "no rows"]
    /\ UNCHANGED <<profiles, complaints, attachments, complaint_status_history,
                   objects, session, ui>>

\* ----------------------------------------------------------------- routing
\* The routes of the landing page, the sign-in page and the two dashboards.
Routes == {"/", "/auth", "/student", "/admin"}
NoNavigation == "none"

\* Who holds the session of a browser: nobody, an account with a profile, or
\* an account whose profile row is missing.
RoutingSessionConfigs ==
    [Sessions -> {NULL} \cup Users \cup NewUsers]

\* The browser is opened on one of the routes, the auth context still loading.
InitRouting ==
    /\ profiles = [u \in Users |-> IF u \in Admins THEN "admin" ELSE "student"]
    /\ user_roles = {<<u, IF u \in Admins THEN "admin" ELSE "student">> : u \in Users}
    /\ complaints = << >>
    /\ attachments = << >>
    /\ complaint_status_history = << >>
    /\ objects = {}
    /\ session \in RoutingSessionConfigs
    /\ ui \in [Sessions -> [page : Routes, loading : {TRUE}, hops : {0}]]
    /\ lastOp = NoOp

\* useAuth(): the user of the session (NULL without one), the profile row of
\* that user (none when it is missing) and the loading flag.
useAuth(s) ==
    [user |-> session[s],
     profile |-> IF session[s] \in DOMAIN profiles
                 THEN <<[role |-> profiles[session[s]]]>>
                 ELSE << >>,
     loading |-> ui[s].loading]

\* profile?.role
role_of(profile) ==
    IF profile = << >> THEN NULL ELSE profile[1].role

\* The auth context finishes loading; the navigations are counted from here.
AuthProvider(s) ==
    /\ ui[s].loading
    /\ ui' = [ui EXCEPT ![s] = [page |-> ui[s].page, loading |-> FALSE, hops |-> 0]]
    /\ lastOp' = NoOp
    /\ UNCHANGED <<dbVars, session>>

\* The visitor opens a route by hand (a link, a button, the address bar).
visit(s, route) ==
    /\ route # ui[s].page
    /\ ui' = [ui EXCEPT ![s] = [page |-> route, loading |-> ui[s].loading, hops |-> 0]]
    /\ lastOp' = NoOp
    /\ UNCHANGED <<dbVars, session>>

\* navigate(to) called by an effect of the page the browser is on.
navigate(s, to) ==
    /\ to # NoNavigation
    /\ ui' = [ui EXCEPT ![s] = [page |-> to, loading |-> ui[s].loading,
                                hops |-> ui[s].hops + 1]]
    /\ lastOp' = [op |-> "navigate", session |-> s, from |-> ui[s].page, result |-> to]
    /\ UNCHANGED <<dbVars, session>>

\* Where the effect of Index navigates to, if anywhere.
IndexNavigate(s) ==
    LET a == useAuth(s)
    IN  IF ~a.loading /\ a.user # NULL /\ a.profile # << >>
        THEN IF a.profile[1].role = "admin" THEN "/admin" ELSE "/student"
        ELSE NoNavigation

Index(s) ==
    /\ ui[s].page = "/"
    /\ navigate(s, IndexNavigate(s))

\* Auth.checkUser: the session is read from the client and the role with a
\* query of its own, whatever the auth context is doing.
checkUserNavigate(s) ==
    LET uid == session[s]
        profile == IF uid \in DOMAIN profiles /\ profiles_select_policy(uid, uid)
                   THEN <<[role |-> profiles[uid]]>>
                   ELSE << >>
    IN  IF uid = NULL THEN NoNavigation
        ELSE IF role_of(profile) = "admin" THEN "/admin" ELSE "/student"

checkUser(s) ==
    /\ ui[s].page = "/auth"
    /\ navigate(s, checkUserNavigate(s))

StudentDashboardNavigate(s) ==
    LET a == useAuth(s)
    IN  IF a.loading THEN NoNavigation
        ELSE IF a.user = NULL THEN "/auth"
        ELSE IF role_of(a.profile) = "admin" THEN "/admin"
        ELSE NoNavigation

StudentDashboardGuard(s) ==
    /\ ui[s].page = "/student"
    /\ navigate(s, StudentDashboardNavigate(s))

\* A guard with the test on the role the wrong way round.
AdminDashboardNavigate_inverted(s) ==
    LET a == useAuth(s)
    IN  IF a.loading THEN NoNavigation
        ELSE IF a.user = NULL THEN "/auth"
        ELSE IF role_of(a.profile) = "admin" THEN "/student"
        ELSE NoNavigation

AdminDashboardNavigate(s) ==
    LET a == useAuth(s)
    IN  IF a.loading THEN NoNavigation
        ELSE IF a.user = NULL THEN "/auth"
        ELSE IF role_of(a.profile) # "admin" THEN "/student"
        ELSE NoNavigation

AdminDashboardGuard(s) ==
    /\ ui[s].page = "/admin"
    /\ navigate(s, AdminDashboardNavigate(s))

\* -------------------------------------------------------- specification
\* The writers: what can change the tables, and the page state the admin
\* form decides on.
Next ==
    \/ \E s \in Sessions, file \in {NoFile, <<aFile>>}, t \in Times :
          /\ Len(complaints) < MaxComplaints
          /\ handleSubmit(s, aTitle, "other", aDescription, file, t, "none")
    \/ \E s \in Sessions, id \in 1..MaxComplaints : fetchComplaint(s, "admin_detail", id)
    \/ \E s \in Sessions, status \in complaint_status, adminNote \in NoteInputs, ok \in BOOLEAN :
          handleSave(s, status, adminNote, ok)
    \/ \E s \in Sessions, id \in 1..MaxComplaints, st \in complaint_status, note \in StoredNotes :
          RequestUpdateComplaint(s, id, st, note)
    \/ \E s \in Sessions, id \in 1..MaxComplaints, to \in ForgedStatuses :
          RequestInsertHistory(s, id, to)

Spec ==
    Init /\ [][Next]_vars

\* The page handlers alone: what the application's own screens can do.
NextApp ==
    \/ \E s \in Sessions, file \in {NoFile, <<aFile>>}, t \in Times :
          /\ Len(complaints) < MaxComplaints
          /\ handleSubmit(s, aTitle, "other", aDescription, file, t, "none")
    \/ \E s \in Sessions, id \in 1..MaxComplaints : fetchComplaint(s, "admin_detail", id)
    \/ \E s \in Sessions, status \in complaint_status, adminNote \in NoteInputs, ok \in BOOLEAN :
          handleSave(s, status, adminNote, ok)

SpecApp ==
    Init /\ [][NextApp]_vars

\* The readers, over every table state the writers' requests can produce.
NextRead ==
    \/ \E s \in Sessions, file \in {NoFile, <<aFile>>}, t \in Times :
          /\ Len(complaints) < MaxComplaints
          /\ handleSubmit(s, aTitle, "other", aDescription, file, t, "none")
    \/ \E s \in Sessions, id \in 1..MaxComplaints, st \in complaint_status, note \in StoredNotes :
          RequestUpdateComplaint(s, id, st, note)
    \/ \E s \in Sessions, id \in 1..MaxComplaints, to \in ForgedStatuses :
          RequestInsertHistory(s, id, to)
    \/ \E s \in Sessions : fetchComplaints(s)
    \/ \E s \in Sessions, page \in {"student_detail", "admin_detail"}, id \in 1..MaxComplaints :
          fetchComplaint(s, page, id)
    \/ \E s \in Sessions, ok \in BOOLEAN : fetchHistory(s, ok)
    \/ \E s \in Sessions : downloadAttachment(s)
    \/ \E s \in Sessions, a \in 1..MaxAttachments, u \in Students, t \in Times :
          RequestDownload(s, a, <<u, t>>)

SpecRead ==
    Init /\ [][NextRead]_vars

\* The plain requests to complaints and to the ledger, every column the
\* client's choice.
NextRequests ==
    \/ \E s \in Sessions, file \in {NoFile, <<aFile>>}, t \in Times :
          /\ Len(complaints) < MaxComplaints
          /\ handleSubmit(s, aTitle, "other", aDescription, file, t, "none")
    \/ \E s \in Sessions, student_id \in Users :
          /\ Len(complaints) < MaxComplaints
          /\ RequestInsertComplaint(s, student_id, "open", NullText)
    \/ \E s \in Sessions, id \in 1..MaxComplaints, st \in complaint_status, note \in StoredNotes :
          RequestUpdateComplaint(s, id, st, note)
    \/ \E s \in Sessions, id \in 1..MaxComplaints, to \in ForgedStatuses, pos \in 1..MaxHistory :
          RequestInsertHistoryAt(s, id, to, pos)
    \/ \E s \in Sessions, k \in 1..MaxHistory, to \in complaint_status :
          RequestUpdateHistory(s, k, to)
    \/ \E s \in Sessions, k \in 1..MaxHistory : RequestDeleteHistory(s, k)

SpecRequests ==
    Init /\ [][NextRequests]_vars

\* The pages over two complaints side by side.
NextSideBySide ==
    \/ \E s \in Sessions, t \in Times :
          /\ Len(complaints) < MaxSideBySide
          /\ handleSubmit(s, aTitle, "other", aDescription, NoFile, t, "none")
    \/ \E s \in Sessions, id \in 1..MaxSideBySide : fetchComplaint(s, "admin_detail", id)
    \/ \E s \in Sessions, status \in complaint_status, adminNote \in NoteInputs, ok \in BOOLEAN :
          handleSave(s, status, adminNote, ok)

SpecSideBySide ==
    Init /\ [][NextSideBySide]_vars

\* The form of NewComplaint, with everything that can be typed and picked.
NextSubmit ==
    \/ \E s \in Sessions : NewComplaint(s)
    \/ \E s \in Sessions, selectedFile \in FileInputs : handleFileChange(s, selectedFile)
    \/ \E s \in Sessions, title \in TitleInputs, category \in CategoryInputs,
          description \in DescriptionInputs, t \in Times, failAt \in FailAt :
          /\ Len(complaints) < MaxComplaints
          /\ ui[s].page = "new_complaint"
          /\ handleSubmit(s, title, category, description, ui[s].file, t, failAt)

SpecSubmit ==
    Init /\ [][NextSubmit]_vars

\* The bucket and the attachments table: the form with a file picked, and
\* the plain requests with the path the client's choice.
Paths ==
    Users \X Times

NextStorage ==
    \/ \E s \in Sessions : NewComplaint(s)
    \/ \E s \in Sessions : handleFileChange(s, aFile)
    \/ \E s \in Sessions, t \in Times, failAt \in {"none", "attachment"} :
          /\ Len(complaints) < MaxComplaints
          /\ ui[s].page = "new_complaint"
          /\ handleSubmit(s, aTitle, "other", aDescription, ui[s].file, t, failAt)
    \/ \E s \in Sessions, path \in Paths : RequestUpload(s, path, aFile)
    \/ \E s \in Sessions, u \in Users, path \in Paths :
          /\ Len(attachments) < MaxAttachments
          /\ RequestInsertAttachment(s, u, path, aFile)

SpecStorage ==
    Init /\ [][NextStorage]_vars

\* Accounts and their roles: the Auth page and the plain requests.
NextRoles ==
    \/ \E s \in Sessions, email \in Users \cup NewUsers : handleSignUp(s, email)
    \/ \E s \in Sessions, email \in Users \cup NewUsers, role \in RoleMetadata :
          RequestSignUp(s, email, role)
    \/ \E s \in Sessions, email \in Users \cup NewUsers : handleSignIn(s, email)
    \/ \E s \in Sessions, id \in Users \cup NewUsers, role \in app_role :
          RequestUpdateProfile(s, id, role)
    \/ \E s \in Sessions, u \in Users \cup NewUsers, role \in app_role :
          RequestInsertUserRole(s, u, role)
    \/ \E s \in Sessions, u \in Users \cup NewUsers, role \in app_role :
          RequestDeleteUserRole(s, u, role)

SpecRoles ==
    Init /\ [][NextRoles]_vars

\* The admin dashboard over two complaints of any title, category, owner
\* and status.
NextListAll ==
    \/ \E s \in Sessions, title \in ListTitles, category \in ListCategories, t \in Times :
          /\ Len(complaints) < MaxSideBySide
          /\ handleSubmit(s, title, category, aDescription, NoFile, t, "none")
    \/ \E s \in Sessions, id \in 1..MaxSideBySide :
          RequestUpdateComplaint(s, id, "resolved", <<"r">>)
    \/ \E s \in Sessions : AdminDashboard(s)
    \/ \E s \in Sessions, searchTerm \in SearchTerms, statusFilter \in StatusFilters,
          categoryFilter \in CategoryFilters :
          filterComplaints(s, searchTerm, statusFilter, categoryFilter)

SpecListAll ==
    Init /\ [][NextListAll]_vars

\* The status and the note of a complaint, under the admin page and the
\* plain INSERT and UPDATE of complaints.
NextNotes ==
    \/ \E s \in Sessions, t \in Times :
          /\ Len(complaints) < MaxComplaints
          /\ handleSubmit(s, aTitle, "other", aDescription, NoFile, t, "none")
    \/ \E s \in Sessions, status \in complaint_status, admin_note \in StoredNotes :
          /\ Len(complaints) < MaxComplaints
          /\ RequestInsertComplaint(s, session[s], status, admin_note)
    \/ \E s \in Sessions, id \in 1..MaxComplaints : fetchComplaint(s, "admin_detail", id)
    \/ \E s \in Sessions, status \in complaint_status, adminNote \in NoteInputs, ok \in BOOLEAN :
          handleSave(s, status, adminNote, ok)
    \/ \E s \in Sessions, id \in 1..MaxComplaints, st \in complaint_status, note \in StoredNotes :
          RequestUpdateComplaint(s, id, st, note)

SpecNotes ==
    Init /\ [][NextNotes]_vars

\* The router: the auth context loads, the visitor opens routes, and the
\* effects of the four pages navigate; an effect is followed while the
\* navigations in a row are within MaxNavigations.
NextRouting ==
    \/ \E s \in Sessions : AuthProvider(s)
    \/ \E s \in Sessions, route \in Routes : visit(s, route)
    \/ \E s \in Sessions : ui[s].hops <= MaxNavigations /\ Index(s)
    \/ \E s \in Sessions : ui[s].hops <= MaxNavigations /\ checkUser(s)
    \/ \E s \in Sessions : ui[s].hops <= MaxNavigations /\ StudentDashboardGuard(s)
    \/ \E s \in Sessions : ui[s].hops <= MaxNavigations /\ AdminDashboardGuard(s)

SpecRouting ==
    InitRouting /\ [][NextRouting]_vars

\* Complaints and their attachments: the form with a file picked, and the
\* plain INSERT with an attachment_id of the client's choice.
AttachmentIds ==
    {NoId} \cup (1 .. MaxAttachments + 1)

NextAttachments ==
    \/ \E s \in Sessions : NewComplaint(s)
    \/ \E s \in Sessions : handleFileChange(s, aFile)
    \/ \E s \in Sessions, t \in Times, failAt \in {"none", "complaint"} :
          /\ Len(complaints) < MaxSideBySide
          /\ ui[s].page = "new_complaint"
          /\ handleSubmit(s, aTitle, "other", aDescription, ui[s].file, t, failAt)
    \/ \E s \in Sessions, attachment_id \in AttachmentIds :
          /\ Len(complaints) < MaxSideBySide
          /\ RequestInsertComplaintWithAttachment(s, attachment_id)

SpecAttachments ==
    Init /\ [][NextAttachments]_vars

\* ===================================================================== C1
\* C1: resolved is absorbing: in no step does a complaint that is resolved
\* leave resolved or get another admin_note.
C1_ResolvedAbsorbing ==
    [][\A i \in DOMAIN complaints :
          complaints[i].status = "resolved"
              => /\ complaints'[i].status = "resolved"
                 /\ complaints'[i].admin_note = complaints[i].admin_note]_vars

\* ===================================================================== C2
LastEntry(q) ==
    q[Len(q)]

\* The step is a save by session s that was sent, matched the row and was
\* reported successful.
SavedOk(s, status, adminNote) ==
    /\ lastOp'.op = "handleSave"
    /\ lastOp'.session = s
    /\ lastOp'.result = "Updated successfully"
    /\ rows_to_update(session[s], ui[s].id) # {}
    /\ handleSave(s, status, adminNote, TRUE)

\* C2 as stated: every successful save leaves exactly one new ledger entry
\* for the complaint, from the status stored before the call to the
\* requested status.
C2_OneEntryPerSuccessfulUpdate ==
    [][\A s \in Sessions, i \in 1..MaxComplaints, status \in complaint_status,
          adminNote \in NoteInputs :
          (SavedOk(s, status, adminNote) /\ ui[s].id = i)
              => /\ Len(ledger(i)') = Len(ledger(i)) + 1
                 /\ LastEntry(ledger(i)').from_status = complaints[i].status
                 /\ LastEntry(ledger(i)').to_status = status]_vars

\* C2 amended: a successful save that changes the stored status leaves
\* exactly one new ledger entry, from the status stored before the call to
\* the requested status; one that leaves the status as it was adds no entry.
C2_OneEntryPerStatusChange ==
    [][\A s \in Sessions, i \in 1..MaxComplaints, status \in complaint_status,
          adminNote \in NoteInputs :
          (SavedOk(s, status, adminNote) /\ ui[s].id = i)
              => IF status # complaints[i].status
                 THEN /\ Len(ledger(i)') = Len(ledger(i)) + 1
                      /\ SubSeq(ledger(i)', 1, Len(ledger(i))) = ledger(i)
                      /\ LastEntry(ledger(i)').from_status = complaints[i].status
                      /\ LastEntry(ledger(i)').to_status = status
                      /\ complaints'[i].status = status
                 ELSE ledger(i)' = ledger(i)]_vars

\* A save by an admin has just changed the status of the complaint on the page.
C2_Witness ==
    /\ lastOp.op = "handleSave"
    /\ lastOp.result = "Updated successfully"
    /\ is_admin(session[lastOp.session])
    /\ ui[lastOp.session].complaint # << >>
    /\ ui[lastOp.session].complaint[1].status = "in_progress"
    /\ Len(ledger(ui[lastOp.session].id)) = 2
    /\ LastEntry(ledger(ui[lastOp.session].id)).by_trigger

\* ===================================================================== C3
\* C3: every complaint has a ledger, and the newest entry's to_status is the
\* complaint's status.
C3_LedgerMatchesStatus ==
    \A i \in DOMAIN complaints :
        /\ ledger(i) # << >>
        /\ LastEntry(ledger(i)).to_status = complaints[i].status

\* ===================================================================== C4
\* C4: every ledger entry was written by the logging trigger; no client
\* request adds one.
C4_LedgerOnlyByTrigger ==
    \A k \in DOMAIN complaint_status_history : complaint_status_history[k].by_trigger

\* ===================================================================== C5
\* C5: a complaint update sent by a principal without the admin role, from
\* the admin page or as a plain request, changes no complaint and no ledger.
C5_NonAdminUpdateChangesNothing ==
    [][\A s \in Sessions :
          ~has_role(session[s], "admin")
              => \/ UNCHANGED <<complaints, complaint_status_history>>
                 \/ /\ \A status \in complaint_status, adminNote \in NoteInputs, ok \in BOOLEAN :
                           ~handleSave(s, status, adminNote, ok)
                    /\ \A id \in 1..MaxComplaints, st \in complaint_status, note \in StoredNotes :
                           ~RequestUpdateComplaint(s, id, st, note)]_vars

\* A student's save from the admin page was sent to the table.
C5_Witness ==
    /\ lastOp.op = "handleSave"
    /\ lastOp.result = "Updated successfully"
    /\ ~has_role(session[lastOp.session], "admin")
    /\ complaints[ui[lastOp.session].id].student_id = session[lastOp.session]

\* ===================================================================== C6
\* C6: a save by a principal without the admin role is never reported to
\* that principal as a successful update.
C6_NonAdminSaveNotReportedOk ==
    (lastOp.op = "handleSave" /\ ~has_role(session[lastOp.session], "admin"))
        => lastOp.result # "Updated successfully"

\* ===================================================================== C7
\* C7: a save for a complaint whose stored status is resolved is answered
\* "Cannot update", whatever the form holds, and changes neither the
\* complaint nor the ledger.
C7_ResolvedRejectsEverySave ==
    [][\A s \in Sessions, status \in complaint_status, adminNote \in NoteInputs :
          (/\ ui[s].page = "admin_detail"
           /\ ui[s].id \in DOMAIN complaints
           /\ complaints[ui[s].id].status = "resolved"
           /\ lastOp'.session = s
           /\ handleSave(s, status, adminNote, TRUE))
              => /\ lastOp'.result = "Cannot update"
                 /\ UNCHANGED <<complaints, complaint_status_history>>]_vars

\* ===================================================================== C8
IsBlank(text) ==
    \A k \in 1..Len(text) : text[k] = " "

\* C8: a save with status resolved and an empty or whitespace-only note, for
\* a complaint that is not resolved, is answered "Note required" and changes
\* neither the complaint nor the ledger.
C8_ResolveNeedsNote ==
    [][\A s \in Sessions, adminNote \in NoteInputs, ok \in BOOLEAN :
          (/\ IsBlank(adminNote)
           /\ ui[s].page = "admin_detail"
           /\ ui[s].id \in DOMAIN complaints
           /\ complaints[ui[s].id].status # "resolved"
           /\ lastOp'.session = s
           /\ handleSave(s, "resolved", adminNote, ok))
              => /\ lastOp'.result = "Note required"
                 /\ UNCHANGED <<complaints, complaint_status_history>>]_vars

\* An admin's save was answered "Note required" for a complaint that is open.
C8_Witness ==
    /\ lastOp.op = "handleSave"
    /\ lastOp.result = "Note required"
    /\ has_role(session[lastOp.session], "admin")
    /\ complaints[ui[lastOp.session].id].status = "open"

\* ===================================================================== C9
Owner(i) ==
    complaints[i].student_id

NonOwnerStudent(uid, i) ==
    /\ i \in DOMAIN complaints
    /\ ~has_role(uid, "admin")
    /\ uid # Owner(i)

\* The attachment rows and stored objects of complaint i.
AttachmentOf(i, a) ==
    i \in DOMAIN complaints /\ complaints[i].attachment_id = a /\ a # NoId

PathOf(i, path) ==
    \E k \in DOMAIN attachments :
        AttachmentOf(i, attachments[k].id) /\ attachments[k].stored_path = path

Reader ==
    session[lastOp.session]

OwnsComplaint(uid, id) ==
    \E i \in DOMAIN complaints : complaints[i].id = id /\ complaints[i].student_id = uid

InSeq(x, q) ==
    \E k \in DOMAIN q : q[k] = x

\* Every row the last read returned to a student, and every complaint a
\* student's page holds, belongs to that student.
StudentSeesOwnRows ==
    /\ \A s \in Sessions :
          (~has_role(session[s], "admin") /\ ui[s].page # "none" /\ ui[s].page # "dashboard")
              => \A k \in DOMAIN ui[s].complaint : ui[s].complaint[k].student_id = session[s]
    /\ (lastOp.op # "none" /\ lastOp.session \in Sessions /\ ~has_role(Reader, "admin"))
          => /\ lastOp.op = "fetchComplaints"
                  => \A k \in DOMAIN lastOp.result : lastOp.result[k].student_id = Reader
             /\ lastOp.op = "fetchHistory"
                  => \A k \in DOMAIN lastOp.result :
                        OwnsComplaint(Reader, lastOp.result[k].complaint_id)
             /\ lastOp.op = "download"
                  => /\ \A k \in DOMAIN lastOp.result[1] :
                           lastOp.result[1][k].owner_user_id = Reader
                     /\ \A k \in DOMAIN lastOp.result[2] : lastOp.result[2][k][1] = Reader
             /\ lastOp.op = "downloadAttachment"
                  => \A k \in DOMAIN lastOp.result : lastOp.result[k][1] = Reader

\* The last read of an admin returned every row there is to return.
AdminSeesAllRows ==
    (lastOp.op # "none" /\ lastOp.session \in Sessions /\ has_role(Reader, "admin"))
        => /\ lastOp.op = "fetchComplaints"
                => \A i \in DOMAIN complaints : InSeq(complaints[i], lastOp.result)
           /\ (lastOp.op = "fetchHistory" /\ ~lastOp.error)
                => \A k \in DOMAIN complaint_status_history :
                      complaint_status_history[k].complaint_id = ui[lastOp.session].id
                          => InSeq(complaint_status_history[k], lastOp.result)
           /\ lastOp.op = "download"
                => /\ \A k \in DOMAIN attachments :
                         attachments[k].id = lastOp.attachment_id
                             => InSeq(attachments[k], lastOp.result[1])
                   /\ lastOp.path \in objects => lastOp.result[2] = <<lastOp.path>>

\* C10: what a read returns to a student is owned by that student, directly
\* or through the owning complaint, and an admin is returned all rows.
C10_RowLevelVisibility ==
    StudentSeesOwnRows /\ AdminSeesAllRows

\* An admin listed the ledger of a complaint of a student and got an entry
\* that another principal wrote.
C10_Witness ==
    /\ lastOp.op = "fetchHistory"
    /\ has_role(Reader, "admin")
    /\ \E k \in DOMAIN lastOp.result :
          /\ lastOp.result[k].changed_by_user_id # Reader
          /\ ~OwnsComplaint(lastOp.result[k].changed_by_user_id,
                            lastOp.result[k].complaint_id)

\* ==================================================================== C11
\* C11: right after a successful submission, what the owner gets for the new
\* complaint is one row with status open and no admin note, and a ledger
\* of exactly one entry, from no status to open.
C11_CreateThenGet ==
    (lastOp.op = "handleSubmit" /\ lastOp.result = "Complaint submitted!")
        => LET uid == session[lastOp.session]
               id == Len(complaints)
               got == select_complaint_by_id(uid, id)
               history == select_history(uid, id)
           IN  /\ Len(got) = 1
               /\ got[1].student_id = uid
               /\ got[1].status = "open"
               /\ got[1].admin_note = NullText
               /\ Len(history) = 1
               /\ history[1].from_status = NULL
               /\ history[1].to_status = "open"

\* A student's submission with a file went through.
C11_Witness ==
    /\ lastOp.op = "handleSubmit"
    /\ lastOp.result = "Complaint submitted!"
    /\ session[lastOp.session] \in Students
    /\ complaints[Len(complaints)].attachment_id # NoId
    /\ Len(ledger(Len(complaints))) = 1

\* ==================================================================== C12
IsPrefix(p, q) ==
    Len(p) <= Len(q) /\ SubSeq(q, 1, Len(p)) = p

\* C12: the ledger is append-only: in every step the ledger of each
\* complaint, in changed_at order, starts with what it was before the step.
C12_LedgerAppendOnly ==
    [][\A i \in DOMAIN complaints : IsPrefix(ledger(i), ledger(i)')]_vars

\* ==================================================================== C13
\* C13: the ledger of a complaint has one entry for its insert and one more
\* for each committed update that changed its status, and no other: a step
\* adds one entry when it creates the complaint or changes its status, and
\* none otherwise.
C13_LedgerTracksStatusChanges ==
    [][\A i \in 1..MaxComplaints :
          Len(ledger(i)') =
              IF i \notin DOMAIN complaints
              THEN (IF i \in DOMAIN complaints' THEN 1 ELSE 0)
              ELSE Len(ledger(i))
                       + (IF complaints'[i].status # complaints[i].status THEN 1 ELSE 0)]_vars

\* ==================================================================== C14
\* The entry the trigger wrote when complaint i was inserted names the
\* principal that sent the insert.
CreatorOf(i) ==
    {complaint_status_history[k].changed_by_user_id :
        k \in {j \in DOMAIN complaint_status_history :
                  /\ complaint_status_history[j].complaint_id = i
                  /\ complaint_status_history[j].by_trigger
                  /\ complaint_status_history[j].from_status = NULL}}

SameButStatusAndNote(c, d) ==
    /\ d.id = c.id
    /\ d.student_id = c.student_id
    /\ d.title = c.title
    /\ d.category = c.category
    /\ d.description = c.description
    /\ d.attachment_id = c.attachment_id

C16_LastWriteWins ==
    [][\A s \in Sessions, status \in complaint_status, adminNote \in NoteInputs :
          \A i \in DOMAIN complaints :
              (/\ SavedOk(s, status, adminNote)
               /\ i = ui[s].id
               /\ complaints[i].status # "resolved")
                  => /\ complaints'[i].status = status
                     /\ complaints'[i].admin_note = orElse(trim(adminNote), NullText)
                     /\ status # complaints[i].status
                            => /\ Len(ledger(i)') = Len(ledger(i)) + 1
                               /\ LastEntry(ledger(i)').from_status = complaints[i].status
                               /\ LastEntry(ledger(i)').to_status = status
                               /\ LastEntry(ledger(i)').note_snapshot = complaints'[i].admin_note
                               /\ LastEntry(ledger(i)').changed_by_user_id = session[s]]_vars

\* An admin session saved over the save of another: the other page still
\* shows what it stored, which is the from_status of the new entry and is
\* not what the complaint started with, and the note the other stored is gone.
C16_Witness ==
    /\ lastOp.op = "handleSave"
    /\ lastOp.result = "Updated successfully"
    /\ \E o \in Sessions \ {lastOp.session} :
          /\ has_role(session[o], "admin")
          /\ has_role(session[lastOp.session], "admin")
          /\ ui[o].page = "admin_detail"
          /\ ui[o].id = ui[lastOp.session].id
          /\ ui[o].complaint # << >>
          /\ Len(ledger(ui[o].id)) = 3
          /\ ui[o].complaint[1].status = LastEntry(ledger(ui[o].id)).from_status
          /\ ui[o].complaint[1].status = "in_progress"
          /\ ui[o].complaint[1].admin_note = <<"r">>
          /\ complaints[ui[o].id].status = "open"
          /\ complaints[ui[o].id].admin_note = NullText

\* ==================================================================== C17
\* C17: an admin's save that goes through, for a complaint stored as open or
\* in_progress and a different status (open to in_progress or resolved,
\* in_progress to open or resolved), with a note that is not blank when the
\* status is resolved, is answered "Updated successfully" and leaves the
\* complaint with the status asked for.
C17_AllowedTransitions ==
    [][\A s \in Sessions, status \in complaint_status, adminNote \in NoteInputs :
          \A i \in DOMAIN complaints :
              (/\ lastOp'.op = "handleSave"
               /\ lastOp'.session = s
               /\ has_role(session[s], "admin")
               /\ i = ui[s].id
               /\ complaints[i].status \in {"open", "in_progress"}
               /\ status # complaints[i].status
               /\ status = "resolved" => ~IsBlank(adminNote)
               /\ handleSave(s, status, adminNote, TRUE))
                  => /\ lastOp'.result = "Updated successfully"
                     /\ complaints'[i].status = status]_vars

\* An admin took a complaint from in_progress back to open.
C17_Witness ==
    /\ lastOp.op = "handleSave"
    /\ lastOp.result = "Updated successfully"
    /\ has_role(session[lastOp.session], "admin")
    /\ complaints[ui[lastOp.session].id].status = "open"
    /\ LastEntry(ledger(ui[lastOp.session].id)).by_trigger
    /\ LastEntry(ledger(ui[lastOp.session].id)).from_status = "in_progress"
    /\ LastEntry(ledger(ui[lastOp.session].id)).to_status = "open"

\* ==================================================================== C18
\* The length of a text from its first to its last character that is not a
\* blank.
TrimmedLen(text) ==
    IF text = << >> THEN 0
    ELSE IF text[1] # " " /\ text[Len(text)] # " " THEN Len(text)
    ELSE IF \A k \in 1..Len(text) : text[k] = " " THEN 0
    ELSE (CHOOSE k \in 1..Len(text) :
              text[k] # " " /\ \A j \in (k + 1)..Len(text) : text[j] = " ")
           - (CHOOSE k \in 1..Len(text) :
                  text[k] # " " /\ \A j \in 1..(k - 1) : text[j] = " ") + 1

InvalidForm(title, category, description) ==
    \/ TrimmedLen(title) \notin 1..120
    \/ TrimmedLen(description) \notin 1..5000
    \/ category = ""

\* The forms that can be submitted, by what C18 says of them.
Forms ==
    [title : TitleInputs, category : CategoryInputs, description : DescriptionInputs]

InvalidForms ==
    {f \in Forms : InvalidForm(f.title, f.category, f.description)}

ValidForms ==
    Forms \ InvalidForms

\* C18: a submission whose title is not 1 to 120 characters long once
\* trimmed, whose description is not 1 to 5000, or that has no category, is
\* answered with the validation message and stores nothing: no object, no
\* attachment, no complaint, no ledger entry.
C18_CreateValidation ==
    [][lastOp'.op = "handleSubmit"
          => \/ /\ lastOp'.result \in {"errors", "Category required"}
                /\ UNCHANGED <<objects, attachments, complaints,
                               complaint_status_history>>
             \/ \A s \in Sessions, f \in InvalidForms, t \in Times, failAt \in FailAt :
                   ~(/\ lastOp'.session = s
                     /\ ui[s].page = "new_complaint"
                     /\ handleSubmit(s, f.title, f.category, f.description,
                                     ui[s].file, t, failAt))]_vars

\* A form with a file picked was turned away for its fields, and nothing is
\* stored.
C18_Witness ==
    /\ lastOp.op = "handleSubmit"
    /\ lastOp.result = "errors"
    /\ ui[lastOp.session].page = "new_complaint"
    /\ ui[lastOp.session].file # NoFile
    /\ objects = {}
    /\ attachments = << >>
    /\ complaints = << >>

\* ==================================================================== C19
FileOk(f, types) ==
    f.type \in types /\ f.size <= 10485760

\* What C19 asks of the types `types`: a file picked that is not of these
\* types or is over 10,485,760 bytes is turned away with a message, the form
\* keeps what it had and nothing is stored; any other file, one of exactly
\* 10,485,760 bytes too, becomes the form's file; and no form and no
\* attachment ever holds a file that is not of these types or is over the
\* size.
UploadValidation(types) ==
    /\ \A s \in Sessions, f \in FileInputs :
          (/\ lastOp'.op = "handleFileChange"
           /\ lastOp'.session = s
           /\ handleFileChange(s, f))
              => IF FileOk(f, types)
                 THEN ui'[s].file = <<f>>
                 ELSE /\ lastOp'.result \in {"Invalid file type", "File too large"}
                      /\ ui'[s].file = ui[s].file
                      /\ UNCHANGED dbVars
    /\ \A s \in Sessions :
          (ui'[s].page = "new_complaint" /\ ui'[s].file # NoFile)
              => FileOk(ui'[s].file[1], types)
    /\ \A k \in DOMAIN attachments' :
          FileOk([type |-> attachments'[k].mime_type, size |-> attachments'[k].byte_size],
                 types)

C20_NoRollbackOfBlob ==
    [][\A s \in Sessions, t \in Times :
          (/\ lastOp'.op = "handleSubmit"
           /\ lastOp'.session = s
           /\ ui[s].page = "new_complaint"
           /\ ui[s].file # NoFile
           /\ <<session[s], t>> \notin objects)
              => \/ /\ lastOp'.result = "Submission failed"
                    /\ objects' = objects \cup {<<session[s], t>>}
                    /\ UNCHANGED <<attachments, complaints, complaint_status_history>>
                 \/ \A f \in ValidForms :
                       ~handleSubmit(s, f.title, f.category, f.description,
                                     ui[s].file, t, "attachment")]_vars

\* A submission failed and left an object that no attachment row names.
C20_Witness ==
    /\ lastOp.op = "handleSubmit"
    /\ lastOp.result = "Submission failed"
    /\ complaints = << >>
    /\ complaint_status_history = << >>
    /\ \E path \in objects :
          /\ path[1] = session[lastOp.session]
          /\ \A k \in DOMAIN attachments : attachments[k].stored_path # path

\* ==================================================================== C21
\* C21: storage paths are owner-namespaced and unique: the first segment of
\* the stored_path of every attachment row is its owner_user_id; an upload
\* under a first segment that is not the uploader's id is turned away and
\* stores nothing; and an upload that goes through is to a path that held no
\* object before.
C21_OwnerNamespacedPaths ==
    [][/\ \A k \in DOMAIN attachments' :
             attachments'[k].stored_path[1] = attachments'[k].owner_user_id
       /\ (lastOp'.op = "upload" /\ lastOp'.path[1] # session[lastOp'.session])
             => (lastOp'.result = "error" /\ objects' = objects)
       /\ (lastOp'.op = "upload" /\ lastOp'.result = "uploaded")
             => (lastOp'.path \notin objects /\ objects' = objects \cup {lastOp'.path})]_vars

\* ==================================================================== C22
\* C22: the role of a profile is immutable after creation: in no step does
\* the role stored for an account that exists change, in profiles or in
\* user_roles, the owner's update of their own profile included.
C22_RoleImmutable ==
    [][\A u \in DOMAIN profiles :
          /\ u \in DOMAIN profiles'
          /\ profiles'[u] = profiles[u]
          /\ \A r \in app_role : (<<u, r>> \in user_roles') = (<<u, r>> \in user_roles)]_vars

\* An owner has just asked for another role on their own profile and was
\* refused, and has updated the profile with its role kept.
C22_Witness ==
    /\ lastOp.op = "update_profile"
    /\ lastOp.user = session[lastOp.session]
    /\ lastOp.result = "error"
    /\ lastOp.role # profiles[lastOp.user]
    /\ lastOp.user \in NewUsers

\* ==================================================================== C23
\* Two characters are the same letter, whatever their case.
SameLetter(c, d) ==
    \/ c = d
    \/ {c, d} \in {{"a", "A"}, {"b", "B"}, {"d", "D"}, {"n", "N"}, {"r", "R"}}

OccursIgnoringCase(term, text) ==
    \E i \in 0..(Len(text) - Len(term)) :
        \A k \in 1..Len(term) : SameLetter(text[i + k], term[k])

\* Complaint c passes the filters supplied; << >> and "all" are "not
\* supplied".
SatisfiesFilters(c, searchTerm, statusFilter, categoryFilter) ==
    /\ \/ searchTerm = << >>
       \/ OccursIgnoringCase(searchTerm, c.title)
       \/ OccursIgnoringCase(searchTerm, c.description)
       \/ OccursIgnoringCase(searchTerm, profile_full_name[c.student_id])
       \/ OccursIgnoringCase(searchTerm, profile_email[c.student_id])
    /\ statusFilter = "all" \/ c.status = statusFilter
    /\ categoryFilter = "all" \/ c.category = categoryFilter

\* C23: the admin's listing gives exactly the complaints that satisfy every
\* filter supplied, newest first: the dashboard loads every complaint in
\* created_at-descending order, and what it shows under a search term, a
\* status and a category is the loaded complaints that satisfy all three, in
\* the order loaded; with no filter it shows every complaint loaded.
C23_ListAllFilters ==
    [][\A s \in Sessions :
          /\ (lastOp'.op = "AdminDashboard" /\ lastOp'.session = s)
                => /\ Len(ui'[s].complaints) = Len(complaints)
                   /\ \A i \in 1..Len(complaints) :
                         ui'[s].complaints[i].complaint = complaints[Len(complaints) + 1 - i]
          /\ (lastOp'.op = "filterComplaints" /\ lastOp'.session = s)
                => lastOp'.result =
                      SelectSeq(ui[s].complaints,
                                LAMBDA row : SatisfiesFilters(row.complaint,
                                                              lastOp'.searchTerm,
                                                              lastOp'.statusFilter,
                                                              lastOp'.categoryFilter))]_vars

\* Of two complaints loaded, the search for "N" shows the one whose owner's
\* name holds an n, and not the other.
C23_Witness ==
    /\ lastOp.op = "filterComplaints"
    /\ lastOp.searchTerm = <<"N">>
    /\ lastOp.statusFilter = "all"
    /\ lastOp.categoryFilter = "all"
    /\ Len(ui[lastOp.session].complaints) = 2
    /\ Len(lastOp.result) = 1
    /\ lastOp.result[1].complaint.student_id = "s1"

\* ==================================================================== C24
\* C24: the ledger of every complaint is a chain: its first entry has
\* from_status NULL, every later entry starts from the to_status of the
\* entry before it and goes to another status, and no entry starts from
\* resolved.
C24_LedgerChain ==
    \A i \in DOMAIN complaints :
        LET q == ledger(i)
        IN  \A k \in DOMAIN q :
                /\ k = 1 => q[k].from_status = NULL
                /\ k > 1 => /\ q[k].from_status = q[k - 1].to_status
                            /\ q[k].from_status # q[k].to_status
                /\ q[k].from_status # "resolved"

\* ==================================================================== C25
\* C25: every complaint that is resolved has an admin_note that is not NULL
\* and not blank; and the admin_note a successful save of the admin page
\* stores is NULL or a text that is not empty and has no blank at either end.
C25_ResolvedHasNote ==
    [][/\ \A i \in DOMAIN complaints' :
             complaints'[i].status = "resolved"
                 => /\ complaints'[i].admin_note # NullText
                    /\ \E k \in DOMAIN complaints'[i].admin_note :
                          complaints'[i].admin_note[k] # " "
       /\ \A s \in Sessions :
             (/\ lastOp'.op = "handleSave"
              /\ lastOp'.session = s
              /\ lastOp'.result = "Updated successfully"
              /\ rows_to_update(session[s], ui[s].id) # {})
                 => LET note == complaints'[ui[s].id].admin_note
                    IN  \/ note = NullText
                        \/ /\ note # << >>
                           /\ note[1] # " "
                           /\ note[Len(note)] # " "]_vars

\* ==================================================================== C26
\* C26: an account made by sign-up holds the student role and no other, in
\* profiles and in user_roles: has_role(u, "admin") is true of no account
\* that signed up.
C26_SignUpOnlyStudent ==
    \A u \in NewUsers \cap DOMAIN profiles :
        /\ profiles[u] = "student"
        /\ \A r \in app_role : has_role(u, r) => r = "student"
        /\ ~has_role(u, "admin")

\* ==================================================================== C27
\* C27: the two role stores agree: for every principal, the role of its
\* profile is admin if and only if user_roles holds (principal, admin).
C27_RoleStoresAgree ==
    \A u \in Users \cup NewUsers :
        (u \in DOMAIN profiles /\ profiles[u] = "admin") <=> has_role(u, "admin")

\* Two accounts have signed up, one as admin and one as student, and the
\* owner of one has just been refused another role on their profile.
C27_Witness ==
    /\ lastOp.op = "update_profile"
    /\ lastOp.result = "error"
    /\ lastOp.user = session[lastOp.session]
    /\ \E u, v \in NewUsers \cap DOMAIN profiles :
          /\ profiles[u] = "admin" /\ has_role(u, "admin")
          /\ profiles[v] = "student" /\ has_role(v, "student")

\* ==================================================================== C28
\* C28: every complaint whose attachment_id is not null references a row of
\* attachments that exists and whose owner_user_id is the complaint's
\* student_id.
C28_AttachmentBelongsToAuthor ==
    \A i \in DOMAIN complaints :
        complaints[i].attachment_id # NoId
            => /\ complaints[i].attachment_id \in DOMAIN attachments
               /\ attachments[complaints[i].attachment_id].owner_user_id
                     = complaints[i].student_id

\* ==================================================================== C29
\* An id no complaint has.
AbsentId ==
    Len(complaints) + 1

MountedFor(s, id) ==
    ui[s].page = "student_detail" /\ ui[s].id = id

\* C29: existence hiding: to a student who does not own complaint i, every
\* read keyed by its id answers as it does for an id that does not exist: the
\* get and the history listing give the same rows (none), and the page
\* mounted for the id has no complaint loaded, so that downloadAttachment
\* looks nothing up, just as on the page mounted for an absent id.
C29_ExistenceHiding ==
    \A s \in Sessions :
        /\ \A i \in DOMAIN complaints :
              NonOwnerStudent(session[s], i)
                  => /\ select_complaint_by_id(session[s], i)
                           = select_complaint_by_id(session[s], AbsentId)
                     /\ select_history(session[s], i)
                           = select_history(session[s], AbsentId)
                     /\ MountedFor(s, i) => ui[s].complaint = << >>
        /\ \A id \in 1..MaxComplaints :
              (id \notin DOMAIN complaints /\ MountedFor(s, id))
                  => ui[s].complaint = << >>

\* A student is on the page mounted for a complaint of another student that
\* has an attachment and a ledger, and the history listing came back empty.
C29_Witness ==
    /\ lastOp.op = "fetchHistory"
    /\ ~lastOp.error
    /\ lastOp.result = << >>
    /\ \E i \in DOMAIN complaints :
          /\ NonOwnerStudent(session[lastOp.session], i)
          /\ MountedFor(lastOp.session, i)
          /\ ui[lastOp.session].complaint = << >>
          /\ complaints[i].attachment_id # NoId
          /\ ledger(i) # << >>

\* ==================================================================== C30
\* Where the effect of the page the browser is on navigates to, if anywhere.
Redirect(s) ==
    CASE ui[s].page = "/" -> IndexNavigate(s)
      [] ui[s].page = "/auth" -> checkUserNavigate(s)
      [] ui[s].page = "/student" -> StudentDashboardNavigate(s)
      [] ui[s].page = "/admin" -> AdminDashboardNavigate(s)

FixedPoint(s) ==
    ~ui[s].loading /\ Redirect(s) = NoNavigation

\* C30: role-based routing converges: once the auth context has loaded, the
\* effects of the four pages navigate at most MaxNavigations times in a row
\* (no redirect loop), and where no effect navigates any more a visitor
\* without a session is on no dashboard, an account whose profile role is
\* admin is not on the student dashboard, and an account whose profile role
\* is not admin, or whose profile is missing, is not on the admin dashboard.
C30_RoutingConverges ==
    \A s \in Sessions :
        /\ ui[s].hops <= MaxNavigations
        /\ FixedPoint(s)
              => /\ session[s] = NULL => ui[s].page \notin {"/student", "/admin"}
                 /\ role_of(useAuth(s).profile) = "admin" => ui[s].page # "/student"
                 /\ role_of(useAuth(s).profile) # "admin" => ui[s].page # "/admin"

\* An account whose profile is missing opened the admin dashboard and was
\* sent to the student dashboard, where no effect navigates any more.
C30_Witness ==
    /\ lastOp.op = "navigate"
    /\ lastOp.from = "/admin"
    /\ lastOp.result = "/student"
    /\ session[lastOp.session] \in NewUsers
    /\ session[lastOp.session] \notin DOMAIN profiles
    /\ FixedPoint(lastOp.session)

====
